---- MODULE Spec2Model ----
(***************************************************************************)
(* Model of tc.py: a command line tool that renders an XML build request   *)
(* and POSTs it to a TeamCity build queue.                                 *)
(*                                                                         *)
(* Text is modelled as a sequence of lexical atoms (TLA+ strings): markup  *)
(* atoms of the templates and value atoms supplied by the user.  Templates *)
(* are sequences of literal atoms and named fields; str.format substitutes *)
(* the fields and concatenates, without any escaping.                      *)
(***************************************************************************)
EXTENDS Integers, Sequences, FiniteSets, TLC

(* ---------------------------------------------------------------------- *)
(* Bounds of the model                                                     *)
(* ---------------------------------------------------------------------- *)

\* longest chain of leading command words on the command line
MaxCmds == 2

\* number of TC(...) dispatches a host program makes in one process
MaxRuns == 2

(* ---------------------------------------------------------------------- *)
(* Constants of tc.py                                                      *)
(* ---------------------------------------------------------------------- *)

\* a template piece: a literal atom or a replacement field {name}
L(s) == [lit |-> s, field |-> ""]
F(f) == [lit |-> "", field |-> f]

PropOpen == "\n    <property name=\""
PropMid == "\" value=\""
PropClose == "\"/>"
BuildOpen == "\n<build personal=\""
PropertiesOpen == "\n  <properties>"
PropertiesClose == "\n  </properties>\n</build>\n"

_headers == [Accept |-> "application/json", ContentType |-> "application/xml"]

_requestbase ==
    << L(BuildOpen), F("personal"),
       L("\" branchName=\""), F("branch"),
       L("\">\n  <buildType id=\""), F("buildid"),
       L("\"/>\n  <comment><text>Triggered from CLI</text></comment>"),
       L(PropertiesOpen),
       L(PropOpen), L("remote"), L(PropMid), F("remote"), L(PropClose),
       L(PropOpen), L("branch"), L(PropMid), F("branch"), L(PropClose),
       F("props"),
       L(PropertiesClose) >>

_requestpropertybase ==
    << L(PropOpen), F("name"), L(PropMid), F("value"), L(PropClose) >>

_neo4jlinux_id == <<"JonasHaRequests_Neo4jCustom">>
_har_id == <<"JonasHaRequests_HarBranchArtifacts">>

_linux_jdks == << "openjdk-8", "openjdk-7", "oracle-jdk-8", "oracle-jdk-7",
                  "ibmjdk-8", "ibmjdk-7" >>

\* the Python value None, as the value of an argument or of a lookup
None == <<"<None>">>

\* option strings of the shared parsers as the module creates them
ParserInit == {"user", "password", "remote", "teamcity", "personal", "no_personal"}
Neo4jParserBaseInit == {"maven_goals", "maven_args", "branch"}

\* actions declared with required=True
RequiredOpts == {"user", "password", "branch"}

\* defaults of the options (add_argument default=, set_defaults)
DefaultOf(o) ==
    CASE o = "remote" -> <<"origin">>
      [] o = "teamcity" -> <<"https://build.neohq.net">>
      [] o = "maven_goals" -> <<"clean verify">>
      [] o = "maven_args" -> <<"-DrunITs -DskipBrowser">>
      [] o = "jdk" -> <<_linux_jdks[1]>>
      [] OTHER -> None

(* ---------------------------------------------------------------------- *)
(* Pure functions                                                          *)
(* ---------------------------------------------------------------------- *)

RECURSIVE Format(_, _)
\* str.format: literals are copied, fields replaced by the keyword's text
Format(tpl, kw) ==
    IF tpl = <<>> THEN <<>>
    ELSE (IF Head(tpl).field = "" THEN <<Head(tpl).lit>> ELSE kw[Head(tpl).field])
         \o Format(Tail(tpl), kw)

\* str(bool)
Str(b) == IF b THEN "True" ELSE "False"

\* Lower without the case conversion
Lower_unchanged(s) == s

\* str.lower on the atoms that reach it
Lower(s) ==
    CASE s = "True" -> "true"
      [] s = "False" -> "false"
      [] OTHER -> s

RECURSIVE dict_as_properties(_)
\* props: the (key, value) items of the dictionary in iteration order
dict_as_properties(props) ==
    IF props = <<>> THEN <<>>
    ELSE Format(_requestpropertybase,
                [name |-> <<Head(props).k>>, value |-> Head(props).v])
         \o dict_as_properties(Tail(props))

request_xml(buildid, personal, branch, remote, props) ==
    Format(_requestbase,
           [buildid |-> buildid,
            remote |-> remote,
            branch |-> branch,
            props |-> IF props = None THEN <<>> ELSE props,
            personal |-> <<Lower(Str(personal))>>])

MvnPrefix == "-DfailIfNoTests=false -Dmaven.test.failure.ignore=true --show-version "

\* tc_mvn_args that adds nothing
tc_mvn_args_bare(original) == original

tc_mvn_args(original) == <<MvnPrefix>> \o original

RECURSIVE Split(_)
\* str.split('/') on a text whose separators are the atoms "/"
Split(p) ==
    IF p = <<>> THEN <<"">>
    ELSE IF Head(p) = "/" THEN <<"">> \o Split(Tail(p))
    ELSE <<Head(p)>> \o Tail(Split(Tail(p)))

RECURSIVE Join(_)
\* '/'.join(segments)
Join(segs) ==
    IF segs = <<>> THEN <<>>
    ELSE IF Len(segs) = 1 THEN <<Head(segs)>>
    ELSE <<Head(segs), "/">> \o Join(Tail(segs))

NonEmpty(a) == a # ""

\* the relative reference send_request joins to the base
QueuePath == <<"httpAuth", "/", "app", "/", "rest", "/", "buildQueue">>

\* urlparse.urljoin(base, url) for a relative path url: the first atom of
\* base is scheme://netloc, the rest its path
urljoin(base, url) ==
    LET bpath == Tail(base)
        parts == Split(bpath)
        base_parts == IF parts[Len(parts)] # "" THEN SubSeq(parts, 1, Len(parts) - 1)
                      ELSE parts
        segments == base_parts \o Split(url)
        n == Len(segments)
        filtered == IF n <= 2 THEN segments
                    ELSE <<segments[1]>> \o SelectSeq(SubSeq(segments, 2, n - 1), NonEmpty)
                         \o <<segments[n]>>
    IN  <<Head(base)>> \o SelectSeq(Join(filtered), NonEmpty)

(* ---------------------------------------------------------------------- *)
(* Command lines                                                           *)
(* ---------------------------------------------------------------------- *)

\* leading words of a command line; the attributes hasattr finds on a TC
\* object are among them
Commands == {"linux", "har", "bogus", "__init__", "__doc__", "-h"}

\* names a TC instance has as attributes (hasattr(self, name))
Attrs == {"linux", "har", "__init__", "__doc__"}

\* a double quote, a tag end and a second property inside one value
Markup == <<"x", PropClose, PropOpen, "y", PropMid, "z">>

OptionNames == {"user", "password", "branch", "remote", "teamcity",
                "personal", "no_personal", "maven_goals", "maven_args", "jdk"}

\* options that no parser requires
OptionalNames == OptionNames \ RequiredOpts

\* marks an option that is not on the command line
NotGiven == <<"<not given>">>

ValuesOf(o) ==
    CASE o = "user" -> {<<"u">>}
      [] o = "password" -> {<<"p">>}
      [] o = "branch" -> {<<"b">>}
      [] o = "remote" -> {<<"upstream">>}
      [] o = "teamcity" -> {<<"https://host", "/">>,
                            <<"https://host", "/", "tc">>,
                            <<"https://host", "/", "tc", "/">>}
      [] o = "personal" -> {<<>>}
      [] o = "no_personal" -> {<<>>}
      [] o = "maven_goals" -> {Markup}
      [] o = "maven_args" -> {<<"-DrunITs">>}
      [] o = "jdk" -> {<<_linux_jdks[i]>> : i \in 1..Len(_linux_jdks)} \cup {<<"jdk-9">>}

\* number of options beyond user, password and branch on a command line
MaxOptional == 2

Choice(o) == ValuesOf(o) \cup {NotGiven}

\* the options of a command line: option name -> value, for the options given
OptionSets ==
    LET recs == [user : Choice("user"), password : Choice("password"),
                 branch : Choice("branch"), remote : Choice("remote"),
                 teamcity : Choice("teamcity"), personal : Choice("personal"),
                 no_personal : Choice("no_personal"),
                 maven_goals : Choice("maven_goals"),
                 maven_args : Choice("maven_args"), jdk : Choice("jdk")]
        given(r) == {o \in OptionNames : r[o] # NotGiven}
    IN  {[o \in given(r) |-> r[o]] :
            r \in {q \in recs : Cardinality(given(q) \cap OptionalNames) <= MaxOptional}}

CmdSeqs == UNION {[1..n -> Commands] : n \in 0..MaxCmds}

\* HTTP responses the server may give
StatusCodes == {200, 304, 403}
Bodies == {"{\"webUrl\": \"https://x/y\"}", "{}", "[]", "Forbidden"}
Responses == [status_code : StatusCodes, text : Bodies]
NoResponse == [status_code |-> 0, text |-> ""]

\* Response.ok of requests: raise_for_status raises for 400..599 only
Ok(r) == ~(400 <= r.status_code /\ r.status_code < 600)

\* Response.json(): the parsed body, or ValueError
JsonLoads(text) ==
    CASE text = "{\"webUrl\": \"https://x/y\"}" ->
            [valid |-> TRUE, type |-> "dict", webUrl |-> <<"https://x/y">>]
      [] text = "{}" -> [valid |-> TRUE, type |-> "dict", webUrl |-> None]
      [] text = "[]" -> [valid |-> TRUE, type |-> "list", webUrl |-> None]
      [] OTHER -> [valid |-> FALSE, type |-> "", webUrl |-> None]

\* what print shows for a parsed JSON value
Repr(text) ==
    CASE text = "{\"webUrl\": \"https://x/y\"}" -> <<"{'webUrl': 'https://x/y'}">>
      [] OTHER -> <<text>>

\* the iteration orders of a dictionary built from the items d: insertion
\* order on Python 3.7 and later, any order on the older interpreters the
\* script also runs on
ItemOrders(d) ==
    LET n == Len(d)
        perms == {p \in [1..n -> 1..n] : \A i, j \in 1..n : p[i] = p[j] => i = j}
    IN  {[i \in 1..n |-> d[p[i]]] : p \in perms}

NoArgs == [user |-> None, password |-> None, url |-> None, personal |-> FALSE,
           branch |-> None, remote |-> None, mvngoals |-> None,
           mvnargs |-> None, jdk |-> None]
NoData == None

(* ---------------------------------------------------------------------- *)
(* State                                                                   *)
(* ---------------------------------------------------------------------- *)

VARIABLES
    cliargs,            \* sys.argv[1:]: [cmds: leading words, opts: options given]
    pc,                 \* position of the process
    rest,               \* leading words not yet consumed (cliargs[1:] of each level)
    args,               \* arguments of the call to start_linux / start_ha
    data,               \* the rendered XML
    posts,              \* the HTTP requests issued, in order
    resp,               \* the HTTP response
    out,                \* lines printed (stdout and stderr), in order
    status,             \* exit status of the process once pc = "exited"
    exc,                \* the uncaught exception that ended the process, if any
    _parser,            \* option strings of the shared parser _parser / _required
    _neo4jparserbase,   \* option strings of the shared parser _neo4jparserbase
    runs                \* TC(...) dispatches started in this process

vars == <<cliargs, pc, rest, args, data, posts, resp, out, status, exc,
          _parser, _neo4jparserbase, runs>>

Running == -1

Init ==
    /\ cliargs \in [cmds : CmdSeqs, opts : OptionSets]
    /\ pc = "TC"
    /\ rest = cliargs.cmds
    /\ args = NoArgs
    /\ data = NoData
    /\ posts = <<>>
    /\ resp = NoResponse
    /\ out = <<>>
    /\ status = Running
    /\ exc = "None"
    /\ _parser = ParserInit
    /\ _neo4jparserbase = Neo4jParserBaseInit
    /\ runs = 1

(* ---------------------------------------------------------------------- *)
(* Ways a step ends the process                                            *)
(* ---------------------------------------------------------------------- *)

\* exit(code) after printing lines
Exit(code, lines) ==
    /\ pc' = "exited"
    /\ status' = code
    /\ out' = out \o lines
    /\ exc' = "SystemExit"

\* ArgumentParser.error: usage and message on stderr, exit status 2
ParserError ==
    Exit(2, << <<"usage:">>, <<"error:">> >>)

\* the help action: print_help, exit status 0
ParserHelp ==
    Exit(0, << <<"usage:">>, <<"-h, --help">> >>)

\* an exception nobody catches: traceback on stderr, exit status 1
Raise(e, lines) ==
    /\ pc' = "exited"
    /\ status' = 1
    /\ out' = out \o lines \o << <<"Traceback", e>> >>
    /\ exc' = e

(* ---------------------------------------------------------------------- *)
(* Argument parsing                                                        *)
(* ---------------------------------------------------------------------- *)

Range(s) == {s[i] : i \in DOMAIN s}

\* parents=[...]: the option strings of the parents, or a conflict when two
\* parents carry the same option string
Conflict(p1, p2) == p1 \cap p2 # {}

\* ParseArgs that does not enforce required=True
ParseArgs_optional(parser, words, opts) ==
    LET given == DOMAIN opts
        mutex == {"personal", "no_personal"} \subseteq (given \cap parser)
        badchoice == /\ "jdk" \in given \cap parser
                     /\ opts["jdk"] \notin {<<_linux_jdks[i]>> : i \in 1..Len(_linux_jdks)}
        extras == words # <<>> \/ given \ parser # {}
    IN  IF "-h" \in Range(words) THEN "help"
        ELSE IF mutex \/ badchoice \/ extras THEN "error"
        ELSE "ok"

\* parser.parse_args(subargs) for a parser with the option strings parser;
\* words are the leading words of subargs, opts the options that follow
ParseArgs(parser, words, opts) ==
    LET given == DOMAIN opts
        mutex == {"personal", "no_personal"} \subseteq (given \cap parser)
        badchoice == /\ "jdk" \in given \cap parser
                     /\ opts["jdk"] \notin {<<_linux_jdks[i]>> : i \in 1..Len(_linux_jdks)}
        missing == (RequiredOpts \cap parser) \ given
        extras == words # <<>> \/ given \ parser # {}
    IN  IF "-h" \in Range(words) THEN "help"
        ELSE IF mutex \/ badchoice \/ missing # {} \/ extras THEN "error"
        ELSE "ok"

\* the attribute of the parsed namespace for option o
Attr(opts, o) == IF o \in DOMAIN opts THEN opts[o] ELSE DefaultOf(o)

\* dest personal: store_true / store_false, default False
Personal(opts) == "personal" \in DOMAIN opts

\* what print shows for a value
StrOf(v) == IF v = None THEN <<"None">> ELSE v

(* ---------------------------------------------------------------------- *)
(* Steps of the program                                                    *)
(* ---------------------------------------------------------------------- *)

\* TC.__init__(cliargs): parse cliargs[:1], look the command up on self and
\* call it with cliargs[1:]
TCInit ==
    /\ pc = "TC"
    /\ IF rest = <<>> THEN ParserError /\ UNCHANGED rest
       ELSE LET command == Head(rest)
            IN  IF command = "-h" THEN ParserHelp /\ UNCHANGED rest
                ELSE IF command \notin Attrs
                THEN /\ Exit(1, << <<"Unrecognized command:", command>>, <<"usage:">> >>)
                     /\ UNCHANGED rest
                ELSE IF command = "__doc__"
                THEN Raise("TypeError", <<>>) /\ UNCHANGED rest
                ELSE /\ pc' = IF command = "__init__" THEN "TC" ELSE command
                     /\ rest' = Tail(rest)
                     /\ UNCHANGED <<out, status, exc>>
    /\ UNCHANGED <<cliargs, args, data, posts, resp, _parser, _neo4jparserbase, runs>>

\* TC.linux(subargs) up to the call of start_linux
linux ==
    /\ pc = "linux"
    /\ IF Conflict(_parser, _neo4jparserbase)
       THEN Raise("ArgumentError", <<>>) /\ UNCHANGED args
       ELSE LET parser == _parser \cup _neo4jparserbase \cup {"jdk"}
                o == cliargs.opts
                r == ParseArgs(parser, rest, o)
            IN  CASE r = "help" -> ParserHelp /\ UNCHANGED args
                  [] r = "error" -> ParserError /\ UNCHANGED args
                  [] r = "ok" ->
                        /\ args' = [user |-> Attr(o, "user"),
                                    password |-> Attr(o, "password"),
                                    url |-> Attr(o, "teamcity"),
                                    personal |-> Personal(o),
                                    branch |-> Attr(o, "branch"),
                                    remote |-> Attr(o, "remote"),
                                    mvngoals |-> Attr(o, "maven_goals"),
                                    mvnargs |-> tc_mvn_args(Attr(o, "maven_args")),
                                    jdk |-> Attr(o, "jdk")]
                        /\ pc' = "start_linux"
                        /\ UNCHANGED <<out, status, exc>>
    /\ UNCHANGED <<cliargs, rest, data, posts, resp, _parser, _neo4jparserbase, runs>>

\* TC.har(subargs) up to the call of start_ha
har ==
    /\ pc = "har"
    /\ IF "branch" \in _parser
       THEN Raise("ArgumentError", <<>>) /\ UNCHANGED <<args, _parser>>
       ELSE LET parser == _parser \cup {"branch"}
                o == cliargs.opts
                r == ParseArgs(parser, rest, o)
            IN  /\ _parser' = parser
                /\ CASE r = "help" -> ParserHelp /\ UNCHANGED args
                     [] r = "error" -> ParserError /\ UNCHANGED args
                     [] r = "ok" ->
                           /\ args' = [user |-> Attr(o, "user"),
                                       password |-> Attr(o, "password"),
                                       url |-> Attr(o, "teamcity"),
                                       personal |-> Personal(o),
                                       branch |-> Attr(o, "branch"),
                                       remote |-> Attr(o, "remote"),
                                       mvngoals |-> None,
                                       mvnargs |-> None,
                                       jdk |-> None]
                           /\ pc' = "start_ha"
                           /\ UNCHANGED <<out, status, exc>>
    /\ UNCHANGED <<cliargs, rest, data, posts, resp, _neo4jparserbase, runs>>

\* start_linux up to the call of send_request
start_linux ==
    /\ pc = "start_linux"
    /\ \E items \in ItemOrders(
            << [k |-> "project-default-jdk",
                v |-> Format(<<L("%"), F("jdk"), L("%")>>, [jdk |-> args.jdk])],
               [k |-> "maven-goals", v |-> args.mvngoals],
               [k |-> "maven-args", v |-> args.mvnargs] >>) :
          data' = request_xml(_neo4jlinux_id, args.personal, args.branch,
                              args.remote, dict_as_properties(items))
    /\ pc' = "send_request"
    /\ UNCHANGED <<cliargs, rest, args, posts, resp, out, status, exc,
                   _parser, _neo4jparserbase, runs>>

\* start_ha up to the call of send_request
start_ha ==
    /\ pc = "start_ha"
    /\ data' = request_xml(_har_id, args.personal, args.branch, args.remote, None)
    /\ pc' = "send_request"
    /\ UNCHANGED <<cliargs, rest, args, posts, resp, out, status, exc,
                   _parser, _neo4jparserbase, runs>>

\* send_request: r.post is called and blocks
send_request ==
    /\ pc = "send_request"
    /\ posts' = Append(posts, [url |-> urljoin(args.url, QueuePath),
                               auth |-> <<args.user, args.password>>,
                               headers |-> _headers,
                               data |-> data])
    /\ pc' = "await"
    /\ UNCHANGED <<cliargs, rest, args, data, resp, out, status, exc,
                   _parser, _neo4jparserbase, runs>>

Started == <<"Build started. View status at">>
Failed == <<"Could not start build:">>

\* send_request that posts again when the response is an error
send_request_result_retry ==
    /\ pc = "await"
    /\ \/ Raise("ConnectionError", <<>>) /\ UNCHANGED <<resp, posts>>
       \/ \E r \in Responses :
            IF Ok(r)
            THEN LET j == JsonLoads(r.text)
                 IN  /\ resp' = r
                     /\ UNCHANGED posts
                     /\ IF ~j.valid THEN Raise("ValueError", <<Started>>)
                        ELSE IF j.type # "dict" THEN Raise("AttributeError", <<Started>>)
                        ELSE /\ pc' = "returned"
                             /\ out' = out \o <<Started, StrOf(j.webUrl)>>
                             /\ UNCHANGED <<status, exc>>
            ELSE /\ posts' = Append(posts, posts[Len(posts)])
                 /\ UNCHANGED <<resp, pc, out, status, exc>>
    /\ UNCHANGED <<cliargs, rest, args, data, _parser, _neo4jparserbase, runs>>

\* send_request: r.post returns a response or raises, and the result is printed
send_request_result ==
    /\ pc = "await"
    /\ \/ Raise("ConnectionError", <<>>) /\ UNCHANGED resp
       \/ \E r \in Responses :
            /\ resp' = r
            /\ IF Ok(r)
               THEN LET j == JsonLoads(r.text)
                    IN  IF ~j.valid THEN Raise("ValueError", <<Started>>)
                        ELSE IF j.type # "dict" THEN Raise("AttributeError", <<Started>>)
                        ELSE /\ pc' = "returned"
                             /\ out' = out \o <<Started, StrOf(j.webUrl)>>
                             /\ UNCHANGED <<status, exc>>
               ELSE Exit(1, <<Failed, <<ToString(r.status_code)>>,
                              IF JsonLoads(r.text).valid THEN Repr(r.text)
                              ELSE <<r.text>> >>)
    /\ UNCHANGED <<cliargs, rest, args, data, posts, _parser, _neo4jparserbase, runs>>

\* the script's last statement TC(sys.argv[1:]) returned: the interpreter exits
MainExit ==
    /\ pc = "returned"
    /\ pc' = "exited"
    /\ status' = 0
    /\ UNCHANGED <<cliargs, rest, args, data, posts, resp, out, exc,
                   _parser, _neo4jparserbase, runs>>

\* TC(...) returns to a program that imported the module: nothing of the
\* call is kept but the module-level parsers
TCReturn ==
    /\ pc = "returned"
    /\ pc' = "idle"
    /\ cliargs' = [cmds |-> <<>>, opts |-> <<>>]
    /\ rest' = <<>>
    /\ args' = NoArgs
    /\ data' = NoData
    /\ posts' = <<>>
    /\ resp' = NoResponse
    /\ out' = <<>>
    /\ UNCHANGED <<status, exc, _parser, _neo4jparserbase, runs>>

\* the importing program calls TC(...) again
Redispatch ==
    /\ pc = "idle"
    /\ runs < MaxRuns
    /\ \E c \in [cmds : CmdSeqs, opts : OptionSets] :
          /\ cliargs' = c
          /\ rest' = c.cmds
    /\ pc' = "TC"
    /\ runs' = runs + 1
    /\ UNCHANGED <<args, data, posts, resp, out, status, exc,
                   _parser, _neo4jparserbase>>

Next ==
    \/ TCInit
    \/ linux
    \/ har
    \/ start_linux
    \/ start_ha
    \/ send_request
    \/ send_request_result
    \/ MainExit

\* one run of the script
Spec == Init /\ [][Next]_vars

NextLib == Next \/ TCReturn \/ Redispatch

\* a process that imports the module and dispatches up to MaxRuns times
SpecLib == Init /\ [][NextLib]_vars

(* ---------------------------------------------------------------------- *)
(* Vocabulary of the properties                                            *)
(* ---------------------------------------------------------------------- *)

GivenOpts == DOMAIN cliargs.opts

Printed(line) == \E i \in DOMAIN out : out[i] = line

\* s occurs in d as a contiguous piece
Contains(d, s) ==
    \E i \in 1..(Len(d) - Len(s) + 1) : SubSeq(d, i, i + Len(s) - 1) = s

RECURSIVE PropertyNames(_)
\* the names of the property elements of a document, in document order
PropertyNames(d) ==
    IF Len(d) < 2 THEN <<>>
    ELSE IF Head(d) = PropOpen THEN <<d[2]>> \o PropertyNames(Tail(d))
    ELSE PropertyNames(Tail(d))

\* the rendered text of one property element
Property(name, value) == <<PropOpen, name, PropMid>> \o value \o <<PropClose>>

Is2xx(r) == 200 <= r.status_code /\ r.status_code < 300

SixJdks == {<<"openjdk-8">>, <<"openjdk-7">>, <<"oracle-jdk-8">>,
            <<"oracle-jdk-7">>, <<"ibmjdk-8">>, <<"ibmjdk-7">>}

\* the command line is the command linux or har followed by options
HandlerRun == cliargs.cmds \in {<<"linux">>, <<"har">>}

BothPersonal == {"personal", "no_personal"} \subseteq GivenOpts

BadJdk == "jdk" \in GivenOpts /\ cliargs.opts["jdk"] \notin SixJdks

\* the failures of argument parsing that the usage text names
ParseFails ==
    \/ cliargs.cmds = <<>>
    \/ /\ HandlerRun
       /\ \/ ~({"user", "password", "branch"} \subseteq GivenOpts)
          \/ BothPersonal
          \/ BadJdk

\* a command line the handler accepts
ValidRun ==
    /\ HandlerRun
    /\ {"user", "password", "branch"} \subseteq GivenOpts
    /\ ~BothPersonal
    /\ IF cliargs.cmds = <<"linux">> THEN ~BadJdk
       ELSE GivenOpts \cap {"jdk", "maven_goals", "maven_args"} = {}

\* the request on the wire came from the linux handler
LinuxPosted == posts # <<>> /\ args.jdk # None

(* ---------------------------------------------------------------------- *)
(* C1                                                                      *)
(* ---------------------------------------------------------------------- *)

\* C1: every run whose top-level command word is neither linux nor har
\* prints the unrecognized command message, exits with status 1 and issues
\* no HTTP request.
C1_UnknownCommandRejected ==
    (/\ pc = "exited"
     /\ cliargs.cmds # <<>>
     /\ Head(cliargs.cmds) \notin {"linux", "har", "-h"})
    => /\ Printed(<<"Unrecognized command:", Head(cliargs.cmds)>>)
       /\ status = 1
       /\ posts = <<>>

(* ---------------------------------------------------------------------- *)
(* C2                                                                      *)
(* ---------------------------------------------------------------------- *)

\* C2: for every response that is a failure (status not 2xx, or a body that
\* is not valid JSON) the status code is printed, then the JSON body if it
\* parses and the raw text otherwise, and the process exits with status 1.
C2_FailureReported ==
    (/\ pc = "exited"
     /\ resp # NoResponse
     /\ ~Is2xx(resp) \/ ~JsonLoads(resp.text).valid)
    => /\ status = 1
       /\ \E i \in DOMAIN out :
            /\ out[i] = <<ToString(resp.status_code)>>
            /\ i + 1 \in DOMAIN out
            /\ out[i + 1] = IF JsonLoads(resp.text).valid THEN Repr(resp.text)
                            ELSE <<resp.text>>

(* ---------------------------------------------------------------------- *)
(* C3                                                                      *)
(* ---------------------------------------------------------------------- *)

\* C3: a 2xx response whose body is a JSON object makes the run print the
\* success message followed by the body's webUrl and end with status 0, and
\* the success message is printed only for 2xx responses.
C3_SuccessOnly2xx ==
    /\ (/\ pc = "exited"
        /\ resp # NoResponse
        /\ Is2xx(resp)
        /\ JsonLoads(resp.text).valid
        /\ JsonLoads(resp.text).type = "dict")
       => /\ status = 0
          /\ out = <<Started, StrOf(JsonLoads(resp.text).webUrl)>>
    /\ Printed(Started) => Is2xx(resp)

(* ---------------------------------------------------------------------- *)
(* C4                                                                      *)
(* ---------------------------------------------------------------------- *)

\* C4 as stated: whenever argument parsing fails (no command, or for linux
\* or har a required flag missing, both personal flags, or a --jdk outside
\* the six values) the process exits with status 1 and issues no request.
C4_ParseFailureExits1 ==
    (pc = "exited" /\ ParseFails) => (status = 1 /\ posts = <<>>)

\* C4 amended: whenever argument parsing fails in one of these ways the
\* process exits through ArgumentParser.error with status 2, and no HTTP
\* request is issued.
C4_ParseFailureExits2 ==
    /\ ParseFails => posts = <<>>
    /\ (pc = "exited" /\ ParseFails) => (status = 2 /\ exc = "SystemExit")

\* a linux run without --branch has ended
C4_Witness ==
    /\ pc = "exited"
    /\ cliargs.cmds = <<"linux">>
    /\ {"user", "password"} \subseteq GivenOpts
    /\ "branch" \notin GivenOpts
    /\ status = 2

(* ---------------------------------------------------------------------- *)
(* C5                                                                      *)
(* ---------------------------------------------------------------------- *)

\* C5: a run issues at most one POST and never repeats it; the POST comes
\* after the arguments were parsed and the XML rendered and before any
\* result is printed; a linux or har run with valid arguments that has
\* ended issued exactly one; once the response is there the run is over.
C5_OnePostPerRun ==
    /\ Len(posts) <= 1
    /\ posts # <<>> => /\ args # NoArgs
                       /\ data # NoData
                       /\ posts[1].data = data
    /\ pc = "await" => out = <<>>
    /\ (Printed(Started) \/ Printed(Failed)) => Len(posts) = 1
    /\ (pc = "exited" /\ ValidRun) => Len(posts) = 1
    /\ resp # NoResponse => pc \in {"returned", "exited"}

\* a valid har run received an error response and has ended after one POST
C5_Witness ==
    /\ pc = "exited"
    /\ ValidRun
    /\ cliargs.cmds = <<"har">>
    /\ resp.status_code = 403
    /\ Len(posts) = 1

(* ---------------------------------------------------------------------- *)
(* C6                                                                      *)
(* ---------------------------------------------------------------------- *)

\* C6: the rendered XML has exactly the properties remote, branch and then
\* the entries of the mapping in insertion order: two for the har build,
\* five for the linux build.
C6_PropertiesInOrder ==
    data # NoData =>
        PropertyNames(data) =
            IF args.jdk # None
            THEN <<"remote", "branch", "project-default-jdk", "maven-goals", "maven-args">>
            ELSE <<"remote", "branch">>

(* ---------------------------------------------------------------------- *)
(* C7                                                                      *)
(* ---------------------------------------------------------------------- *)

\* C7: the request of a linux run carries project-default-jdk with the
\* chosen jdk (openjdk-8 when --jdk is absent) between percent signs,
\* maven-goals with the supplied or default goals, and maven-args with the
\* fixed flags followed by the supplied or default arguments, the fixed
\* flags occurring once.
C7_LinuxProperties ==
    LinuxPosted =>
        LET o == cliargs.opts
            d == posts[1].data
            jdk == IF "jdk" \in GivenOpts THEN o["jdk"] ELSE <<"openjdk-8">>
            goals == IF "maven_goals" \in GivenOpts THEN o["maven_goals"]
                     ELSE <<"clean verify">>
            margs == IF "maven_args" \in GivenOpts THEN o["maven_args"]
                     ELSE <<"-DrunITs -DskipBrowser">>
        IN  /\ jdk \in SixJdks
            /\ Contains(d, Property("project-default-jdk", <<"%">> \o jdk \o <<"%">>))
            /\ Contains(d, Property("maven-goals", goals))
            /\ Contains(d, Property("maven-args",
                    <<"-DfailIfNoTests=false -Dmaven.test.failure.ignore=true --show-version ">>
                    \o margs))
            /\ Cardinality({i \in DOMAIN d : d[i] = MvnPrefix}) = 1

\* a linux request went out with --maven-args -DrunITs
C7_Witness ==
    /\ LinuxPosted
    /\ "maven_args" \in GivenOpts
    /\ cliargs.opts["maven_args"] = <<"-DrunITs">>

(* ---------------------------------------------------------------------- *)
(* C8                                                                      *)
(* ---------------------------------------------------------------------- *)

\* C8: the personal attribute of the build element of every request is the
\* lower-case text true or false, and it is true exactly when --personal
\* was given.
C8_PersonalLowerCase ==
    posts # <<>> =>
        LET d == posts[1].data
        IN  /\ d[1] = BuildOpen
            /\ d[3] = "\" branchName=\""
            /\ d[2] \in {"true", "false"}
            /\ d[2] = "true" <=> "personal" \in GivenOpts

\* a request went out for a run with --personal
C8_Witness ==
    /\ posts # <<>>
    /\ "personal" \in GivenOpts
    /\ posts[1].data[2] = "true"

(* ---------------------------------------------------------------------- *)
(* C9                                                                      *)
(* ---------------------------------------------------------------------- *)

\* the base without a trailing slash
StripSlash(base) ==
    IF base[Len(base)] = "/" THEN SubSeq(base, 1, Len(base) - 1) ELSE base

\* C9: the POST goes to the teamcity base followed by
\* /httpAuth/app/rest/buildQueue, no segment of the base dropped (a
\* trailing slash of the base is not doubled).
C9_UrlKeepsBase ==
    posts # <<>> =>
        LET base == IF "teamcity" \in GivenOpts THEN cliargs.opts["teamcity"]
                    ELSE <<"https://build.neohq.net">>
        IN  posts[1].url = StripSlash(base) \o <<"/">> \o QueuePath

(* ---------------------------------------------------------------------- *)
(* C10                                                                     *)
(* ---------------------------------------------------------------------- *)

\* C10: a dispatch leaves the shared parsers _parser / _required and
\* _neo4jparserbase as the module created them, so no later dispatch in the
\* same process ends differently from a first one (which never fails while
\* building its parser).
C10_SharedParsersUnchanged ==
    /\ _parser = ParserInit
    /\ _neo4jparserbase = Neo4jParserBaseInit
    /\ exc # "ArgumentError"

====
